---------------------------- MODULE Spec2Model ----------------------------
(***************************************************************************)
(* Model of the socket.io location/ticket relay of src/Backend.js: the     *)
(* connection registry, the user (session) list, the ticket list, the      *)
(* event handlers registered per socket and the connection monitor.        *)
(*                                                                         *)
(* JavaScript values are tagged records [t |-> <type>, v |-> <value>], so  *)
(* that typeof, truthiness, strict equality and the null/undefined checks  *)
(* of the handlers are computed the way the code computes them.            *)
(***************************************************************************)
EXTENDS Integers, Sequences, FiniteSets

VARIABLES
    status,       \* transport state of each socket id
    connections,  \* Backend.js `connections` Map, in insertion order
    users,        \* Backend.js `users` array
    tickets,      \* Backend.js `tickets` array
    now,          \* wall clock in ms (value of `new Date()`)
    outbox,       \* the messages the last handler emitted, in order
    crashed       \* the process has exited (uncaughtException handler)

vars == <<status, connections, users, tickets, now, outbox, crashed>>

---------------------------------------------------------------------------
(* Bounds of the model *)

MaxTicks == 6
MaxTickets == 2

(* Program constants *)

INACTIVE_MS == 300000
MONITOR_MS == 60000

ConnIds == {"A", "B"}

---------------------------------------------------------------------------
(* JavaScript values *)

Undefined == [t |-> "undefined", v |-> 0]
Null == [t |-> "null", v |-> 0]
Num(n) == [t |-> "number", v |-> n]
Str(s) == [t |-> "string", v |-> s]
Bool(b) == [t |-> "boolean", v |-> b]
Obj(r) == [t |-> "object", v |-> r]

TypeOf(x) == IF x.t = "null" THEN "object" ELSE x.t

Truthy(x) ==
    CASE x.t = "undefined" -> FALSE
      [] x.t = "null" -> FALSE
      [] x.t = "boolean" -> x.v
      [] x.t = "number" -> x.v # 0
      [] x.t = "string" -> x.v # ""
      [] OTHER -> TRUE

\* a || b
OrElse(a, b) == IF Truthy(a) THEN a ELSE b

---------------------------------------------------------------------------
(* Inbound payloads the clients send *)

LocFull == Obj([lat |-> Num(51), lng |-> Num(-1), role |-> Str("user"),
                name |-> Str("Ann"), image |-> Str("a.png")])
LocAnon == Obj([lat |-> Num(0), lng |-> Num(0), role |-> Str("responder"),
                name |-> Str(""), image |-> Undefined])
LocBadLat == Obj([lat |-> Num(91), lng |-> Num(-1), role |-> Str("user"),
                  name |-> Str("Ann"), image |-> Str("a.png")])
LocBadLng == Obj([lat |-> Num(51), lng |-> Num(-181), role |-> Str("user"),
                  name |-> Str("Ann"), image |-> Str("a.png")])
LocNoRole == Obj([lat |-> Num(51), lng |-> Num(-1), role |-> Undefined,
                  name |-> Str("Ann"), image |-> Str("a.png")])

LocationPayloads == {LocFull, LocAnon, LocBadLat, LocBadLng, LocNoRole, Undefined}

LocEmptyRole == Obj([lat |-> Num(51), lng |-> Num(-1), role |-> Str(""),
                     name |-> Str("Ann"), image |-> Str("a.png")])
LocStringLat == Obj([lat |-> Str("51"), lng |-> Num(-1), role |-> Str("user"),
                     name |-> Str("Ann"), image |-> Str("a.png")])

\* the inputs that exercise each test of the location validator
ValidatorPayloads == LocationPayloads \cup {LocEmptyRole, LocStringLat}

\* the flag is whatever the client sends: booleans, nothing, or a string
VisibilityFlags == {Bool(TRUE), Bool(FALSE), Undefined, Str("yes")}

TicketOf(id, creator) ==
    Obj([id |-> Str(id), lat |-> Num(51), lng |-> Num(-1), message |-> Str("help"),
         creatorId |-> Str(creator), creatorName |-> Str("Ann")])
TicketNoMessage ==
    Obj([id |-> Str("t1"), lat |-> Num(51), lng |-> Num(-1), message |-> Undefined,
         creatorId |-> Str("A"), creatorName |-> Str("Ann")])

TicketIds == {"t1", "0"}

TicketStringFields == {"id", "message", "creatorId", "creatorName"}
TicketNumberFields == {"lat", "lng"}

\* a ticket with field f left out
TicketWithout(f) == Obj([TicketOf("t1", "A").v EXCEPT ![f] = Undefined])

\* a ticket with a number where a string is required, or the reverse
TicketMistyped(f) ==
    Obj([TicketOf("t1", "A").v EXCEPT
            ![f] = IF f \in TicketNumberFields THEN Str("51") ELSE Num(7)])

MalformedTickets ==
    {TicketWithout(f) : f \in TicketStringFields \cup TicketNumberFields}
        \cup {TicketMistyped(f) : f \in TicketStringFields \cup TicketNumberFields}

\* creatorId is a field of the payload: a socket may name itself or another
TicketPayloads ==
    {TicketOf(i, c) : i \in TicketIds, c \in ConnIds} \cup {TicketNoMessage, Undefined}

\* the create-ticket inputs with every way of being malformed
CreatePayloads == TicketPayloads \cup MalformedTickets

UpdatePayloads ==
    {Obj([id |-> Str(i), message |-> Str("edited")]) : i \in TicketIds \cup {"zz"}}
        \cup {Undefined}

---------------------------------------------------------------------------
(* Validation utilities *)

\* the validator without the upper latitude bound
validateLocationDataNoLatMax(data) ==
    /\ Truthy(data)
    /\ TypeOf(data.v.lat) = "number"
    /\ TypeOf(data.v.lng) = "number"
    /\ TypeOf(data.v.role) = "string"
    /\ data.v.lat.v >= -90
    /\ data.v.lng.v >= -180 /\ data.v.lng.v <= 180

validateLocationData(data) ==
    /\ Truthy(data)
    /\ TypeOf(data.v.lat) = "number"
    /\ TypeOf(data.v.lng) = "number"
    /\ TypeOf(data.v.role) = "string"
    /\ data.v.lat.v >= -90 /\ data.v.lat.v <= 90
    /\ data.v.lng.v >= -180 /\ data.v.lng.v <= 180

\* the validator without the creatorName check
validateTicketNoCreatorName(ticket) ==
    /\ Truthy(ticket)
    /\ TypeOf(ticket.v.id) = "string"
    /\ TypeOf(ticket.v.lat) = "number"
    /\ TypeOf(ticket.v.lng) = "number"
    /\ TypeOf(ticket.v.message) = "string"
    /\ TypeOf(ticket.v.creatorId) = "string"

validateTicket(ticket) ==
    /\ Truthy(ticket)
    /\ TypeOf(ticket.v.id) = "string"
    /\ TypeOf(ticket.v.lat) = "number"
    /\ TypeOf(ticket.v.lng) = "number"
    /\ TypeOf(ticket.v.message) = "string"
    /\ TypeOf(ticket.v.creatorId) = "string"
    /\ TypeOf(ticket.v.creatorName) = "string"

---------------------------------------------------------------------------
(* Helpers on the arrays *)

\* array.filter(pred), as a sequence
RECURSIVE FilterSeq(_, _)
FilterSeq(s, keep) ==
    IF s = <<>> THEN <<>>
    ELSE IF keep[1] THEN <<Head(s)>> \o FilterSeq(Tail(s), Tail(keep))
         ELSE FilterSeq(Tail(s), Tail(keep))

\* users.find((u) => u.id === clientId): the index of the first match, 0 if none
FindUser(us, clientId) ==
    IF \E i \in 1..Len(us) : us[i].id = clientId
    THEN CHOOSE i \in 1..Len(us) :
            /\ us[i].id = clientId
            /\ \A j \in 1..(i - 1) : us[j].id # clientId
    ELSE 0

\* a filter that drops nothing
RemoveUserKeepsAll(us, clientId) == us

\* users.filter((u) => u.id !== clientId)
RemoveUser(us, clientId) ==
    FilterSeq(us, [i \in 1..Len(us) |-> us[i].id # clientId])

\* connections.get(id): the index of the entry, 0 if none
FindConn(cs, id) ==
    IF \E i \in 1..Len(cs) : cs[i].id = id
    THEN CHOOSE i \in 1..Len(cs) : cs[i].id = id
    ELSE 0

\* a delete that removes nothing
DeleteConnKeepsAll(cs, id) == cs

\* connections.delete(id)
DeleteConn(cs, id) ==
    FilterSeq(cs, [i \in 1..Len(cs) |-> cs[i].id # id])

\* the sockets io.emit reaches: those whose transport is connected
Connected(st) == {c \in ConnIds : st[c] = "open"}

Msg(to, event, payload) == [to |-> to, event |-> event, payload |-> payload]

---------------------------------------------------------------------------
(* Helper function to get valid users *)

\* the filter without the test of isVisible
IsValidUserIgnoresVisibility(user) ==
    /\ user.lat # Null
    /\ user.lng # Null
    /\ user.name # Null
    /\ user.role # Null
    /\ user.image # Null

IsValidUser(user) ==
    /\ Truthy(user.isVisible)
    /\ user.lat # Null
    /\ user.lng # Null
    /\ user.name # Null
    /\ user.role # Null
    /\ user.image # Null

getValidUsers(us) ==
    FilterSeq(us, [i \in 1..Len(us) |-> IsValidUser(us[i])])

\* Broadcast users to all clients
broadcastUsers(us, st) == Msg(Connected(st), "nearby-users", getValidUsers(us))

---------------------------------------------------------------------------
Init ==
    /\ status = [c \in ConnIds |-> "fresh"]
    /\ connections = <<>>
    /\ users = <<>>
    /\ tickets = <<>>
    /\ now = 0
    /\ outbox = <<>>
    /\ crashed = FALSE

NewUser(clientId) ==
    [id |-> clientId, lat |-> Null, lng |-> Null, isVisible |-> Bool(TRUE),
     name |-> Str("Anonymous"), role |-> Str("user"), image |-> Str("")]

\* the initial data sent with io.emit instead of socket.emit
ConnectEmitsToAll(c) ==
    /\ ~crashed
    /\ status[c] = "fresh"
    /\ status' = [status EXCEPT ![c] = "open"]
    /\ connections' = Append(connections, [id |-> c, lastActivity |-> now])
    /\ users' = Append(users, NewUser(c))
    /\ outbox' = << Msg(Connected(status'), "all-tickets", tickets),
                    Msg(Connected(status'), "nearby-users", getValidUsers(users')) >>
    /\ UNCHANGED <<tickets, now, crashed>>

\* io.on("connection")
Connect(c) ==
    /\ ~crashed
    /\ status[c] = "fresh"
    /\ status' = [status EXCEPT ![c] = "open"]
    /\ connections' = Append(connections, [id |-> c, lastActivity |-> now])
    /\ users' = Append(users, NewUser(c))
    /\ outbox' = << Msg({c}, "all-tickets", tickets),
                    Msg({c}, "nearby-users", getValidUsers(users')) >>
    /\ UNCHANGED <<tickets, now, crashed>>

\* the socket's handlers run for a socket that is connected, or whose events
\* were already on the wire when the monitor terminated it
Delivers(c) == ~crashed /\ status[c] \in {"open", "evicted"}

\* the update without `user.isVisible = true`
UpdatedUserKeepsVisibility(user, data) ==
    [user EXCEPT !.lat = data.v.lat,
                 !.lng = data.v.lng,
                 !.role = data.v.role,
                 !.name = OrElse(data.v.name, Str("Anonymous")),
                 !.image = OrElse(data.v.image, Str(""))]

UpdatedUser(user, data) ==
    [user EXCEPT !.lat = data.v.lat,
                 !.lng = data.v.lng,
                 !.role = data.v.role,
                 !.name = OrElse(data.v.name, Str("Anonymous")),
                 !.isVisible = Bool(TRUE),
                 !.image = OrElse(data.v.image, Str(""))]

\* socket.on("user-location")
UserLocation(c, data) ==
    /\ Delivers(c)
    /\ IF ~validateLocationData(data)
       THEN /\ outbox' = << Msg({c}, "error", [message |-> "Invalid location data"]) >>
            /\ UNCHANGED <<status, connections, users, tickets, now, crashed>>
       ELSE LET i == FindUser(users, c)
                k == FindConn(connections, c)
            IN  IF i = 0
                THEN /\ outbox' = <<>>
                     /\ UNCHANGED <<status, connections, users, tickets, now, crashed>>
                ELSE IF k = 0
                THEN \* connections.get(clientId) is undefined: TypeError
                     /\ users' = [users EXCEPT ![i] = UpdatedUser(users[i], data)]
                     /\ crashed' = TRUE
                     /\ outbox' = <<>>
                     /\ UNCHANGED <<status, connections, tickets, now>>
                ELSE /\ users' = [users EXCEPT ![i] = UpdatedUser(users[i], data)]
                     /\ connections' = [connections EXCEPT ![k].lastActivity = now]
                     /\ outbox' = << broadcastUsers(users', status) >>
                     /\ UNCHANGED <<status, tickets, now, crashed>>

\* the handler answering the sender alone
VisibilityChangeRepliesToSender(c, isVisible) ==
    /\ Delivers(c)
    /\ LET i == FindUser(users, c)
       IN  IF i = 0
           THEN /\ outbox' = <<>>
                /\ UNCHANGED users
           ELSE /\ users' = [users EXCEPT ![i].isVisible = isVisible]
                /\ outbox' = << Msg({c}, "nearby-users", getValidUsers(users')) >>
    /\ UNCHANGED <<status, connections, tickets, now, crashed>>

\* socket.on("visibility-change")
VisibilityChange(c, isVisible) ==
    /\ Delivers(c)
    /\ LET i == FindUser(users, c)
       IN  IF i = 0
           THEN /\ outbox' = <<>>
                /\ UNCHANGED users
           ELSE /\ users' = [users EXCEPT ![i].isVisible = isVisible]
                /\ outbox' = << broadcastUsers(users', status) >>
    /\ UNCHANGED <<status, connections, tickets, now, crashed>>

\* the handler emitting the full list before the single ticket
CreateTicketListFirst(c, ticket) ==
    /\ Delivers(c)
    /\ IF validateTicket(ticket)
       THEN /\ Len(tickets) < MaxTickets
            /\ tickets' = Append(tickets, ticket.v)
            /\ outbox' = << Msg(Connected(status), "all-tickets", tickets'),
                            Msg(Connected(status), "new-ticket", ticket.v) >>
       ELSE /\ outbox' = << Msg({c}, "error", [message |-> "Invalid ticket data"]) >>
            /\ UNCHANGED tickets
    /\ UNCHANGED <<status, connections, users, now, crashed>>

\* socket.on("create-ticket")
CreateTicket(c, ticket) ==
    /\ Delivers(c)
    /\ IF validateTicket(ticket)
       THEN /\ Len(tickets) < MaxTickets
            /\ tickets' = Append(tickets, ticket.v)
            /\ outbox' = << Msg(Connected(status), "new-ticket", ticket.v),
                            Msg(Connected(status), "all-tickets", tickets') >>
       ELSE /\ outbox' = << Msg({c}, "error", [message |-> "Invalid ticket data"]) >>
            /\ UNCHANGED tickets
    /\ UNCHANGED <<status, connections, users, now, crashed>>

\* socket.on("request-tickets")
RequestTickets(c) ==
    /\ Delivers(c)
    /\ outbox' = << Msg({c}, "all-tickets", tickets) >>
    /\ UNCHANGED <<status, connections, users, tickets, now, crashed>>

\* socket.on("request-users")
RequestUsers(c) ==
    /\ Delivers(c)
    /\ outbox' = << Msg({c}, "nearby-users", getValidUsers(users)) >>
    /\ UNCHANGED <<status, connections, users, tickets, now, crashed>>

\* a disconnect that also drops the tickets the socket created
DisconnectDropsTickets(c) ==
    /\ Delivers(c)
    /\ status' = [status EXCEPT ![c] = "closed"]
    /\ users' = RemoveUser(users, c)
    /\ connections' = DeleteConn(connections, c)
    /\ tickets' = FilterSeq(tickets,
                     [i \in 1..Len(tickets) |-> tickets[i].creatorId # Str(c)])
    /\ outbox' = << broadcastUsers(users', status') >>
    /\ UNCHANGED <<now, crashed>>

\* a disconnect that tells nobody
DisconnectSilent(c) ==
    /\ Delivers(c)
    /\ status' = [status EXCEPT ![c] = "closed"]
    /\ users' = RemoveUser(users, c)
    /\ connections' = DeleteConn(connections, c)
    /\ outbox' = <<>>
    /\ UNCHANGED <<tickets, now, crashed>>

\* socket.on("disconnect")
Disconnect(c) ==
    /\ Delivers(c)
    /\ status' = [status EXCEPT ![c] = "closed"]
    /\ users' = RemoveUser(users, c)
    /\ connections' = DeleteConn(connections, c)
    /\ outbox' = << broadcastUsers(users', status') >>
    /\ UNCHANGED <<tickets, now, crashed>>

\* tickets[key] on the array: an index for a canonical numeric key, else a
\* property the array does not have.  0 stands for "no such element".
IndexKeys == <<"0", "1", "2", "3">>

ArrayIndex(key) ==
    IF key.t = "string" /\ \E n \in 1..Len(IndexKeys) : IndexKeys[n] = key.v
    THEN CHOOSE n \in 1..Len(IndexKeys) : IndexKeys[n] = key.v
    ELSE IF key.t = "number" /\ key.v >= 0 THEN key.v + 1
    ELSE 0

ArrayLookup(arr, key) ==
    LET n == ArrayIndex(key) IN IF n \in 1..Len(arr) THEN n ELSE 0

\* socket.on('update-ticket')
UpdateTicket(c, data) ==
    /\ Delivers(c)
    /\ IF ~(data.t = "object")
       THEN \* data.id on undefined: TypeError, uncaughtException, process.exit(1)
            /\ crashed' = TRUE
            /\ outbox' = <<>>
            /\ UNCHANGED tickets
       ELSE LET n == ArrayLookup(tickets, data.v.id)
            IN  IF n # 0 /\ tickets[n].creatorId = Str(c)
                THEN /\ tickets' = [tickets EXCEPT ![n].message = data.v.message]
                     /\ outbox' = << Msg(Connected(status), "ticket-updated", tickets'[n]) >>
                     /\ UNCHANGED crashed
                ELSE /\ outbox' = <<>>
                     /\ UNCHANGED <<tickets, crashed>>
    /\ UNCHANGED <<status, connections, users, now>>

\* the test with >= in place of >
IsInactiveAtThreshold(t, conn) == t - conn.lastActivity >= INACTIVE_MS

\* now - conn.lastActivity > 300000
IsInactive(t, conn) == t - conn.lastActivity > INACTIVE_MS

\* connections.forEach of the monitor: entry i of the Map as it was iterated.
\* io.to(id).disconnect(true) terminates the socket's transport.
RECURSIVE Sweep(_, _, _, _)
Sweep(cs0, i, t, acc) ==
    IF i > Len(cs0) THEN acc
    ELSE IF IsInactive(t, cs0[i])
         THEN LET id == cs0[i].id
                  st == [acc.status EXCEPT ![id] = "evicted"]
                  us == RemoveUser(acc.users, id)
              IN  Sweep(cs0, i + 1, t,
                        [status |-> st,
                         connections |-> DeleteConn(acc.connections, id),
                         users |-> us,
                         outbox |-> Append(acc.outbox, broadcastUsers(us, st))])
         ELSE Sweep(cs0, i + 1, t, acc)

\* setInterval(..., 60000): the clock reaches the next multiple of the interval
MonitorTick ==
    /\ ~crashed
    /\ now < MaxTicks * MONITOR_MS
    /\ now' = now + MONITOR_MS
    /\ LET r == Sweep(connections, 1, now',
                      [status |-> status, connections |-> connections,
                       users |-> users, outbox |-> <<>>])
       IN  /\ status' = r.status
           /\ connections' = r.connections
           /\ users' = r.users
           /\ outbox' = r.outbox
    /\ UNCHANGED <<tickets, crashed>>

Next ==
    \/ \E c \in ConnIds : Connect(c)
    \/ \E c \in ConnIds, data \in LocationPayloads : UserLocation(c, data)
    \/ \E c \in ConnIds, flag \in VisibilityFlags : VisibilityChange(c, flag)
    \/ \E c \in ConnIds, ticket \in TicketPayloads : CreateTicket(c, ticket)
    \/ \E c \in ConnIds, data \in UpdatePayloads : UpdateTicket(c, data)
    \/ \E c \in ConnIds : RequestTickets(c)
    \/ \E c \in ConnIds : RequestUsers(c)
    \/ \E c \in ConnIds : Disconnect(c)
    \/ MonitorTick

Spec == Init /\ [][Next]_vars

\* The session registry and its broadcasts within the first monitor interval
\* (the timer has not fired yet).  The ticket handlers leave `users` and
\* `connections` unchanged.
RegistryNext ==
    \/ \E c \in ConnIds : Connect(c)
    \/ \E c \in ConnIds, data \in LocationPayloads : UserLocation(c, data)
    \/ \E c \in ConnIds, flag \in VisibilityFlags : VisibilityChange(c, flag)
    \/ \E c \in ConnIds : RequestUsers(c)
    \/ \E c \in ConnIds : Disconnect(c)

RegistrySpec == Init /\ [][RegistryNext]_vars

\* The session registry under the connection monitor, over MaxTicks timer
\* periods, with one accepted and one rejected location payload.
MonitorPayloads == {LocFull, LocBadLat}
MonitorFlags == {Bool(TRUE), Bool(FALSE)}

MonitorNext ==
    \/ \E c \in ConnIds : Connect(c)
    \/ \E c \in ConnIds, data \in MonitorPayloads : UserLocation(c, data)
    \/ \E c \in ConnIds, flag \in MonitorFlags : VisibilityChange(c, flag)
    \/ \E c \in ConnIds : RequestUsers(c)
    \/ \E c \in ConnIds : Disconnect(c)
    \/ MonitorTick

MonitorSpec == Init /\ [][MonitorNext]_vars

\* The ticket store, the connection life cycle and the location updates within
\* the first monitor interval (the timer has not fired yet).
TicketNext ==
    \/ \E c \in ConnIds : Connect(c)
    \/ \E c \in ConnIds, data \in LocationPayloads : UserLocation(c, data)
    \/ \E c \in ConnIds, ticket \in TicketPayloads : CreateTicket(c, ticket)
    \/ \E c \in ConnIds, data \in UpdatePayloads : UpdateTicket(c, data)
    \/ \E c \in ConnIds : RequestTickets(c)
    \/ \E c \in ConnIds : RequestUsers(c)
    \/ \E c \in ConnIds : Disconnect(c)

TicketSpec == Init /\ [][TicketNext]_vars

\* location updates alone, over every input of the validator
ValidatorNext ==
    \/ \E c \in ConnIds : Connect(c)
    \/ \E c \in ConnIds, data \in ValidatorPayloads : UserLocation(c, data)
    \/ \E c \in ConnIds : Disconnect(c)

ValidatorSpec == Init /\ [][ValidatorNext]_vars

\* tickets that name their creator, under an id that is also an array index
LifePayloads == {TicketOf("0", c) : c \in ConnIds} \cup {TicketNoMessage}

\* The ticket store over the whole life of its creators: creation, edits,
\* disconnection and the inactivity monitor.
LifeNext ==
    \/ \E c \in ConnIds : Connect(c)
    \/ \E c \in ConnIds, ticket \in LifePayloads : CreateTicket(c, ticket)
    \/ \E c \in ConnIds, data \in UpdatePayloads : UpdateTicket(c, data)
    \/ \E c \in ConnIds : Disconnect(c)
    \/ MonitorTick

LifeSpec == Init /\ [][LifeNext]_vars

\* ticket creation alone, over every well-formed and malformed payload
CreateNext ==
    \/ \E c \in ConnIds : Connect(c)
    \/ \E c \in ConnIds, t \in CreatePayloads : CreateTicket(c, t)
    \/ \E c \in ConnIds : RequestTickets(c)
    \/ \E c \in ConnIds : Disconnect(c)

CreateSpec == Init /\ [][CreateNext]_vars

---------------------------------------------------------------------------
(* Vocabulary of the properties *)

\* snapshot(): the filtered session list the server would send now
Snapshot == getValidUsers(users)
SnapshotNext == getValidUsers(users')

SeqIds(us) == {us[i].id : i \in 1..Len(us)}

NearbyUsersIn(o) == {i \in 1..Len(o) : o[i].event = "nearby-users"}

\* the payload is present, but role is missing or a coordinate is out of range
RejectedByContract(data) ==
    /\ data.t = "object"
    /\ \/ data.v.role.t = "undefined"
       \/ data.v.lat.t = "number" /\ (data.v.lat.v < -90 \/ data.v.lat.v > 90)
       \/ data.v.lng.t = "number" /\ (data.v.lng.v < -180 \/ data.v.lng.v > 180)

\* a payload the location contract accepts
AcceptedByContract(data) ==
    /\ data.t = "object"
    /\ data.v.lat.t = "number" /\ data.v.lat.v >= -90 /\ data.v.lat.v <= 90
    /\ data.v.lng.t = "number" /\ data.v.lng.v >= -180 /\ data.v.lng.v <= 180
    /\ data.v.role.t = "string" /\ data.v.role.v # ""

\* field f of the payload was submitted
Submitted(data, f) == data.v[f].t # "undefined"

---------------------------------------------------------------------------
C2_InvalidLocationRejected ==
    [][\A c \in ConnIds, data \in LocationPayloads :
        (RejectedByContract(data) /\ UserLocation(c, data))
        => /\ users' = users
           /\ connections' = connections
           /\ tickets' = tickets
           /\ SnapshotNext = Snapshot
           /\ NearbyUsersIn(outbox') = {}
           /\ Len(outbox') = 1
           /\ outbox'[1].event = "error"
           /\ outbox'[1].to = {c}]_vars

\* an error was returned to one socket while a located session is registered
C2_Witness ==
    /\ Len(outbox) = 1
    /\ outbox[1].event = "error"
    /\ outbox[1].payload = [message |-> "Invalid location data"]
    /\ Cardinality(outbox[1].to) = 1
    /\ Len(Snapshot) = 2

(* C3: once a socket is closed (disconnect handler or monitor eviction) its *)
(* id is in no session, in no snapshot() and in no nearby-users payload     *)
(* sent from then on; the nearby-users message that follows the close       *)
(* already omits it; a second close leaves users, connections and tickets   *)
(* unchanged.                                                               *)
C3_ClosedNeverBroadcast ==
    [][\A c \in ConnIds :
        /\ status'[c] \in {"closed", "evicted"}
            => /\ c \notin SeqIds(users')
               /\ c \notin SeqIds(connections')
               /\ c \notin SeqIds(SnapshotNext)
        /\ status[c] \in {"closed", "evicted"}
            => \A i \in NearbyUsersIn(outbox') : c \notin SeqIds(outbox'[i].payload)
        /\ (status[c] = "open" /\ status'[c] \in {"closed", "evicted"})
            => /\ outbox' # <<>>
               /\ outbox'[Len(outbox')].event = "nearby-users"
               /\ c \notin SeqIds(outbox'[Len(outbox')].payload)
        /\ (status[c] = "evicted" /\ Disconnect(c))
            => /\ users' = users
               /\ connections' = connections
               /\ tickets' = tickets]_vars

\* the monitor has evicted one socket and the broadcast that followed holds
\* the other socket's session alone
C3_Witness ==
    \E c \in ConnIds :
        /\ status[c] = "evicted"
        /\ Len(outbox) = 1
        /\ outbox[1].event = "nearby-users"
        /\ outbox[1].to = ConnIds \ {c}
        /\ SeqIds(outbox[1].payload) = ConnIds \ {c}

(* C4: the claim as stated.  An update-ticket naming the id of a stored     *)
(* ticket succeeds exactly when the requesting socket's id equals the       *)
(* ticket's creatorId: then the message is overwritten and a ticket-updated *)
(* message carrying the updated ticket goes to all clients; otherwise the   *)
(* message stays as it was.                                                 *)
C4_UpdateIffCreator ==
    [][\A c \in ConnIds, data \in UpdatePayloads :
        (data.t = "object" /\ UpdateTicket(c, data))
        => LET hits == {n \in 1..Len(tickets) : tickets[n].id = data.v.id}
           IN  Cardinality(hits) = 1
               => \A n \in hits :
                     IF tickets[n].creatorId = Str(c)
                     THEN /\ tickets'[n].message = data.v.message
                          /\ \E i \in 1..Len(outbox') :
                                outbox'[i] = Msg(Connected(status), "ticket-updated",
                                                 tickets'[n])
                     ELSE tickets'[n].message = tickets[n].message]_vars

(* C5: the claim as stated.  An update-ticket from a socket other than the  *)
(* ticket's creator, or naming an unknown ticket id, leaves the ticket      *)
(* store unchanged and sends an error to the requesting socket.             *)
C5_UpdateRejectionReported ==
    [][\A c \in ConnIds, data \in UpdatePayloads :
        (data.t = "object" /\ UpdateTicket(c, data))
        => LET hits == {n \in 1..Len(tickets) : tickets[n].id = data.v.id}
           IN  (hits = {} \/ \E n \in hits : tickets[n].creatorId # Str(c))
               => /\ tickets' = tickets
                  /\ \E i \in 1..Len(outbox') :
                        outbox'[i].event = "error" /\ outbox'[i].to = {c}]_vars

(* C6: the claim as stated.  The ticket store never holds two tickets with  *)
(* the same id.                                                             *)
C6_UniqueTicketIds ==
    \A i, j \in 1..Len(tickets) : i # j => tickets[i].id # tickets[j].id

IsInitialData(o, c) ==
    /\ Len(o) = 2
    /\ o[1].event = "all-tickets" /\ o[1].to = {c}
    /\ o[2].event = "nearby-users" /\ o[2].to = {c}

(* C8: the step that opens socket c creates its session and sends the full  *)
(* ticket list and the current snapshot() to c alone; this pair of messages *)
(* is sent in no other step, a socket is opened once, and no handler of     *)
(* c runs before it is opened.                                              *)
C8_InitialDataOnce ==
    [][\A c \in ConnIds :
        /\ (status[c] = "fresh" /\ status'[c] # "fresh")
            => /\ c \in SeqIds(users')
               /\ outbox' = << Msg({c}, "all-tickets", tickets'),
                               Msg({c}, "nearby-users", SnapshotNext) >>
        /\ status[c] # "fresh"
            => /\ status'[c] # "fresh"
               /\ ~IsInitialData(outbox', c)
        /\ status[c] = "fresh"
            => /\ ~(\E data \in LocationPayloads : UserLocation(c, data))
               /\ ~(\E t \in TicketPayloads : CreateTicket(c, t))
               /\ ~(\E data \in UpdatePayloads : UpdateTicket(c, data))
               /\ ~RequestTickets(c) /\ ~RequestUsers(c) /\ ~Disconnect(c)]_vars

\* a socket has just been opened and received a non-empty ticket list and a
\* non-empty snapshot
C8_Witness ==
    \E c \in ConnIds :
        /\ IsInitialData(outbox, c)
        /\ outbox[1].payload # <<>>
        /\ outbox[2].payload # <<>>
        /\ Connected(status) = ConnIds

(* C9: the claim as stated.  Every change of the session list (create,      *)
(* location update, visibility change, close) sends the recomputed          *)
(* snapshot() as nearby-users to every connected client.                    *)
C9_EveryMutationBroadcast ==
    [][users' # users
        => /\ outbox' # <<>>
           /\ outbox'[Len(outbox')] =
                  Msg(Connected(status'), "nearby-users", SnapshotNext)]_vars

(* C9, amended: every location update, visibility change and close that     *)
(* changes the session list sends the recomputed snapshot() as nearby-users *)
(* to every connected client; creating a session sends the snapshot to the  *)
(* new socket alone.                                                        *)
C9_MutationBroadcast ==
    [][LET sent == /\ outbox' # <<>>
                   /\ outbox'[Len(outbox')] =
                          Msg(Connected(status'), "nearby-users", SnapshotNext)
       IN  /\ users' # users
               => /\ outbox' # <<>>
                  /\ IF \E c \in ConnIds : status[c] = "fresh" /\ status'[c] = "open"
                     THEN \A c \in ConnIds :
                             (status[c] = "fresh" /\ status'[c] = "open")
                             => outbox'[Len(outbox')] =
                                    Msg({c}, "nearby-users", SnapshotNext)
                     ELSE sent
           /\ \A c \in ConnIds :
                 /\ (status[c] = "open" /\ \E data \in LocationPayloads :
                        AcceptedByContract(data) /\ UserLocation(c, data)) => sent
                 /\ (status[c] = "open" /\ \E flag \in VisibilityFlags :
                        VisibilityChange(c, flag)) => sent
                 /\ (status[c] = "open" /\ Disconnect(c)) => sent]_vars

\* a visibility change of one socket has been broadcast to both
C9_Witness ==
    /\ Len(outbox) = 1
    /\ outbox[1] = Msg(ConnIds, "nearby-users", Snapshot)
    /\ Len(Snapshot) = 1
    /\ \E i \in 1..Len(users) :
          users[i].isVisible = Bool(FALSE) /\ users[i].lat # Null

(* C10: a create-ticket that adds a ticket sends, to every connected        *)
(* client, new-ticket carrying that ticket alone and then all-tickets       *)
(* carrying the whole list, which ends with the new ticket.                 *)
C10_NewTicketThenAllTickets ==
    [][Len(tickets') > Len(tickets)
        => LET t == tickets'[Len(tickets')]
           IN  /\ tickets' = Append(tickets, t)
               /\ outbox' = << Msg(Connected(status'), "new-ticket", t),
                               Msg(Connected(status'), "all-tickets", tickets') >>]_vars

\* the second ticket has been announced to both clients
C10_Witness ==
    /\ Len(outbox) = 2
    /\ outbox[1].event = "new-ticket" /\ outbox[1].to = ConnIds
    /\ outbox[2].event = "all-tickets" /\ outbox[2].to = ConnIds
    /\ Len(outbox[2].payload) = 2
    /\ outbox[2].payload[2] = outbox[1].payload

\* the payload is absent, or a required field is missing or of the wrong type
MalformedByContract(ticket) ==
    \/ ticket.t # "object"
    \/ \E f \in TicketStringFields : ticket.v[f].t # "string"
    \/ \E f \in TicketNumberFields : ticket.v[f].t # "number"

(* C11: a create-ticket whose payload is absent, or whose id, lat, lng,      *)
(* message, creatorId or creatorName is missing or of the wrong type, leaves *)
(* the ticket store unchanged and sends exactly one message: an error to the *)
(* originating socket alone (hence no new-ticket and no all-tickets).        *)
C11_MalformedTicketRejected ==
    [][\A c \in ConnIds, t \in CreatePayloads :
        (MalformedByContract(t) /\ CreateTicket(c, t))
        => /\ tickets' = tickets
           /\ outbox' = << Msg({c}, "error", [message |-> "Invalid ticket data"]) >>]_vars

\* a malformed ticket has been refused while the store holds a ticket and
\* both sockets are connected
C11_Witness ==
    /\ Len(outbox) = 1
    /\ outbox[1].event = "error"
    /\ outbox[1].payload = [message |-> "Invalid ticket data"]
    /\ Cardinality(outbox[1].to) = 1
    /\ Connected(status) = ConnIds
    /\ Len(tickets) = 1

(* C12: every handler produces a defined outcome for any payload, so the    *)
(* process-fatal state is never reached.                                      *)
C12_NoFatalState == ~crashed

(* C13: every accepted inbound message of a connected socket refreshes its   *)
(* lastActivity to the current time; stated here for request-users and for   *)
(* visibility-change, which the server always accepts.                       *)
C13_ActivityRefreshed ==
    [][\A c \in ConnIds :
        (/\ status[c] = "open"
         /\ \/ RequestUsers(c)
            \/ \E f \in MonitorFlags : VisibilityChange(c, f))
        => /\ FindConn(connections', c) # 0
           /\ connections'[FindConn(connections', c)].lastActivity = now]_vars

(* C14: the location validator accepts a payload exactly when it is present,*)
(* lat and lng are numbers within [-90, 90] and [-180, 180], and role is a   *)
(* non-empty string; a refused payload is answered with an error.            *)
C14_AcceptsIffContract ==
    [][\A c \in ConnIds, data \in ValidatorPayloads :
        (status[c] = "open" /\ UserLocation(c, data))
        => (AcceptedByContract(data)
              <=> \A i \in 1..Len(outbox') : outbox'[i].event # "error")]_vars

\* a session the contract's snapshot() keeps: visible, located, and with a
\* non-empty name, role and image
EligibleByContract(u) ==
    /\ u.isVisible = Bool(TRUE)
    /\ u.lat.t = "number" /\ u.lng.t = "number"
    /\ \A f \in {"name", "role", "image"} : u[f].t = "string" /\ u[f].v # ""

\* a session with a truthy isVisible and coordinates that are set
Eligible(u) ==
    /\ Truthy(u.isVisible)
    /\ u.lat.t = "number" /\ u.lng.t = "number"

(* C15: snapshot() holds exactly the sessions with isVisible = true, lat and *)
(* lng set, and a non-null, non-empty name, role and image; and no           *)
(* nearby-users payload holds a session without coordinates or hidden.       *)
C15_SnapshotExactlyNonEmpty ==
    /\ \A i \in 1..Len(users) :
          (\E j \in 1..Len(Snapshot) : Snapshot[j] = users[i])
              <=> EligibleByContract(users[i])
    /\ \A k \in NearbyUsersIn(outbox) : \A j \in 1..Len(outbox[k].payload) :
          LET u == outbox[k].payload[j]
          IN  u.lat.t = "number" /\ u.lng.t = "number" /\ u.isVisible # Bool(FALSE)

(* C15, amended: snapshot() holds exactly the sessions whose isVisible is    *)
(* truthy and whose lat and lng are set, each once and in registry order; an *)
(* empty name, role or image does not exclude a session (none of the three   *)
(* is ever null).  No nearby-users payload, whether broadcast, catch-up or   *)
(* reply, holds a session without coordinates or with a falsy isVisible.     *)
C15_SnapshotEligible ==
    /\ \A i \in 1..Len(users) :
          (\E j \in 1..Len(Snapshot) : Snapshot[j] = users[i])
              <=> Eligible(users[i])
    /\ Len(Snapshot) = Cardinality({i \in 1..Len(users) : Eligible(users[i])})
    /\ \A j, k \in 1..Len(Snapshot) :
          j < k => FindUser(users, Snapshot[j].id) < FindUser(users, Snapshot[k].id)
    /\ \A i \in 1..Len(users) :
          users[i].name # Null /\ users[i].role # Null /\ users[i].image # Null
    /\ \A k \in NearbyUsersIn(outbox) : \A j \in 1..Len(outbox[k].payload) :
          Eligible(outbox[k].payload[j])

\* two located sessions, one shown with an empty image and a flag that is
\* truthy but not true, the other hidden; the last broadcast lists the first
C15_Witness ==
    /\ Len(users) = 2
    /\ \E i, j \in 1..2 :
          /\ users[i].isVisible = Str("yes") /\ users[i].image = Str("")
          /\ users[i].lat.t = "number"
          /\ users[j].isVisible = Bool(FALSE) /\ users[j].lat.t = "number"
          /\ Len(outbox) = 1 /\ outbox[1].event = "nearby-users"
          /\ outbox[1].payload = << users[i] >>

(* C16: a ticket is never deleted: whatever happens next, the disconnection *)
(* or the eviction of its creator included, every stored ticket is still     *)
(* stored, at the same place and under the same id.                           *)
C16_TicketsPersist ==
    [][\A i \in 1..Len(tickets) :
          /\ i <= Len(tickets')
          /\ tickets'[i].id = tickets[i].id
          /\ tickets'[i].creatorId = tickets[i].creatorId]_vars

\* the store holds a ticket of a socket the monitor evicted and a ticket of
\* a socket that disconnected
C16_Witness ==
    \E c, d \in ConnIds :
        /\ status[c] = "evicted" /\ status[d] = "closed"
        /\ \E i, j \in 1..Len(tickets) :
              tickets[i].creatorId = Str(c) /\ tickets[j].creatorId = Str(d)

(* C17: the creatorId of every stored ticket is the id of the connection    *)
(* whose create-ticket stored it; in particular it is the id of a socket     *)
(* that has connected, since only such a socket can have sent the event.     *)
C17_CreatorIsSender ==
    \A i \in 1..Len(tickets) :
        \E c \in ConnIds : tickets[i].creatorId = Str(c) /\ status[c] # "fresh"

(* C18: in every state there is exactly one session per open connection:    *)
(* the ids of the sessions, the ids of the tracked connections and the open  *)
(* sockets are the same set, and no id occurs twice; so a disconnection or   *)
(* an eviction removes the connection entry and the session in one step.     *)
C18_OneSessionPerConnection ==
    /\ SeqIds(users) = Connected(status)
    /\ SeqIds(connections) = Connected(status)
    /\ Len(users) = Cardinality(SeqIds(users))
    /\ Len(connections) = Cardinality(SeqIds(connections))

\* the monitor has evicted one socket while the other stays tracked
C18_Witness ==
    \E c, d \in ConnIds :
        /\ status[c] = "evicted" /\ status[d] = "open"
        /\ Len(users) = 1 /\ users[1].id = d
        /\ Len(connections) = 1 /\ connections[1].id = d

\* the place in o of the last nearby-users message sent to socket c, 0 if none
LastNearbyTo(o, c) ==
    LET S == {i \in NearbyUsersIn(o) : c \in o[i].to}
    IN  IF S = {} THEN 0 ELSE CHOOSE i \in S : \A j \in S : j <= i

(* C19: no client is left with a stale view.  Messages reach a socket in     *)
(* the order they were sent, so it is enough that every step keeps this:     *)
(* for each socket connected after the step, either the last nearby-users    *)
(* message the step sends to it carries the new snapshot(), or the step      *)
(* sends it none, it was connected before, and snapshot() did not change.    *)
(* A socket's first message is the catch-up of its connection, so by         *)
(* induction the last payload delivered to a connected socket is the current *)
(* snapshot(), whatever the interleaving and however much time has passed.   *)
C19_NoStaleView ==
    [][\A c \in ConnIds :
        status'[c] = "open"
        => LET k == LastNearbyTo(outbox', c)
           IN  IF k # 0
               THEN outbox'[k].payload = SnapshotNext
               ELSE status[c] = "open" /\ SnapshotNext = Snapshot]_vars

\* the monitor has evicted one socket and told the other, which is located
\* and visible, the snapshot that is left
C19_Witness ==
    \E c, d \in ConnIds :
        /\ status[c] = "evicted" /\ status[d] = "open"
        /\ Len(Snapshot) = 1 /\ Snapshot[1].id = d
        /\ outbox = << Msg({d}, "nearby-users", Snapshot) >>

(* C20: a visibility-change of a connected socket c sets c's isVisible to    *)
(* the boolean the flag coerces to and broadcasts; c's lat, lng, name, role  *)
(* and image, the other sessions and the tickets stay as they were.          *)
C20_VisibilityCoerced ==
    [][\A c \in ConnIds, flag \in VisibilityFlags :
        (status[c] = "open" /\ VisibilityChange(c, flag))
        => LET i == FindUser(users, c)
           IN  /\ i # 0
               /\ Len(users') = Len(users)
               /\ users'[i].isVisible = Bool(Truthy(flag))
               /\ \A f \in {"id", "lat", "lng", "name", "role", "image"} :
                     users'[i][f] = users[i][f]
               /\ \A j \in 1..Len(users) : j # i => users'[j] = users[j]
               /\ tickets' = tickets
               /\ outbox' = << Msg(Connected(status), "nearby-users", SnapshotNext) >>]_vars

=============================================================================
